---- MODULE Spec2Model ----
(***************************************************************************)
(* The 2D wave-equation stepper of wave_2d_fd_perf: step() of vc1.c (the   *)
(* sequential variant) and step()/inner() of vc6.c (the OpenMP variant).   *)
(*                                                                         *)
(* A call is run first through vc1 and then, on its own copy of the two    *)
(* field arrays, through vc6.  The two caller arrays are named "A" (passed *)
(* as f, 'current') and "B" (passed as fp, 'previous'); the local pointers *)
(* f and fp hold one of these names.  Arrays are flat, indexed as the code *)
(* indexes them (row * nx + column).                                       *)
(*                                                                         *)
(* Arithmetic is exact integer arithmetic, not float.  dx ranges over the  *)
(* spacings with 1/(dx*dx) = 302702400 * invdx2 for an integer invdx2, for *)
(* which n / 302702400 / (dx*dx) is the integer n * invdx2.  Field values  *)
(* outgrow 32 bits after one step, so an integer is held as its residues   *)
(* modulo the pairwise coprime Moduli; their product exceeds 2^108 and     *)
(* every value within MaxSteps + 1 steps is below 2^105 in magnitude, so   *)
(* two values are equal exactly when their residues are.                   *)
(***************************************************************************)
EXTENDS Integers, Sequences, FiniteSets, TLC

\* Largest num_steps of a call.
MaxSteps == 2

\* Threads of the OpenMP team.
NumWorkers == 2

----------------------------------------------------------------------------
(* Exact integers as residues.                                             *)

Moduli == <<46337, 46327, 46309, 46307, 46301, 46279, 46273>>

NumIdx == 1..Len(Moduli)

ToNum(x) == [m \in NumIdx |-> x % Moduli[m]]

Add(a, b) == [m \in NumIdx |-> (a[m] + b[m]) % Moduli[m]]

Sub(a, b) == [m \in NumIdx |-> (a[m] - b[m]) % Moduli[m]]

Mul(a, b) == [m \in NumIdx |-> (a[m] * b[m]) % Moduli[m]]

Zero == ToNum(0)

----------------------------------------------------------------------------
(* Program constants.                                                      *)

\* The literal 8: first interior row and column, stencil reach, source shift.
Halo == 8

\* The length of fd_coeff[] and the bound of the tap loop (k < 9).
NumCoeff == 9

\* Slip: one digit of the first off-centre numerator.
NumerSlip ==
  <<-924708642, 538137800, -94174080, 22830080, -5350800,
    1053696, -156800, 15360, -735>>

\* The numerators of fd_coeff[0..8] (index k + 1 holds tap k).
Numer ==
  <<-924708642, 538137600, -94174080, 22830080, -5350800,
    1053696, -156800, 15360, -735>>

VARIABLES
  arg,      \* the arguments of the call (never changed)
  mem1,     \* vc1: the two caller arrays
  f1,       \* vc1: pointer f
  fp1,      \* vc1: pointer fp
  step1,    \* vc1: loop variable step
  i1,       \* vc1: loop variable i
  j1,       \* vc1: loop variable j
  pc1,      \* vc1: "entry", "cell", "src", "done"
  mem6,     \* vc6: the two caller arrays
  f6,       \* vc6: pointer f of step()
  fp6,      \* vc6: pointer fp of step()
  step6,    \* vc6: loop variable step of step()
  i6,       \* vc6: loop variable i of inner()'s source loop
  pc6,      \* vc6: "entry", "par", "src", "done"
  nextRow,  \* vc6: next iteration of the parallel loop not yet handed out
  wrow,     \* vc6: per thread, the row i it is executing (0: none)
  wcol,     \* vc6: per thread, its private j
  pre,      \* history: the arrays as they were when the current step began
  hist1,    \* history: per finished vc1 iteration, the array it wrote
  hist6,    \* history: per finished vc6 iteration, the array it wrote
  lastw,    \* history: the array the latest store went to
  wcount,   \* history: vc6, stores per cell in the current parallel loop
  injlog,   \* history: vc6, <<step, source>> of every injection, in order
  sread,    \* history: flat indices read from sources[], both variants
  stores    \* history: flat indices stored to in either field array, both variants

vars ==
  <<arg, mem1, f1, fp1, step1, i1, j1, pc1, mem6, f6, fp6, step6, i6, pc6,
    nextRow, wrow, wcol, pre, hist1, hist6, lastw, wcount, injlog, sread,
    stores>>

vars1 == <<mem1, f1, fp1, step1, i1, j1, pc1, hist1>>

vars6 == <<mem6, f6, fp6, step6, i6, nextRow, wrow, wcol, hist6, wcount, injlog>>

----------------------------------------------------------------------------
(* The arguments.                                                          *)

nx == arg.nx

ny == arg.ny

nxi == arg.nxi

num_sources == arg.num_sources

source_len == arg.source_len

num_steps == arg.num_steps

sources_x == arg.sources_x

sources_y == arg.sources_y

Cells == 0..(nx * ny - 1)

Arrays == {"A", "B"}

Workers == 1..NumWorkers

\* model_padded2_dt2[idx]
ModelAt(idx) ==
  CASE arg.model = "one" -> 1
    [] arg.model = "two" -> 2
    [] OTHER -> idx % 3

\* sources[q]
SourcesAt(q) == arg.amp + q

\* The caller's initial content of array a at idx.
FieldAt(a, idx) ==
  CASE arg.field = "zero" -> 0
    [] arg.field = "const" -> arg.val
    [] OTHER -> IF a = "A" THEN ((idx * idx) % 7) - 3
                ELSE ((idx * idx + idx) % 5) - 2

InitialArrays == [a \in Arrays |-> [idx \in Cells |-> ToNum(FieldAt(a, idx))]]

\* fd_coeff[k], for 1/(dx*dx) = 302702400 * invdx2
fd_coeff(k) == Mul(ToNum(Numer[k + 1]), ToNum(arg.invdx2))

----------------------------------------------------------------------------
(* Loop bounds.                                                            *)

\* for (i = 8; i < ny - 8; i++)
RowStart == Halo

RowEnd == ny - Halo

\* Slip: the j loop starts one column early.
ColStartEarly == Halo - 1

\* for (j = 8; j < nxi + 8; j++)
ColStart == Halo

\* Slip: j <= nxi + 8.
ColEndWide == nxi + Halo + 1

ColEnd == nxi + Halo

\* The region [8, ny-8) x [8, nxi+8), as flat indices.
Interior == {i * nx + j : i \in Halo..(ny - Halo - 1), j \in Halo..(nxi + Halo - 1)}

----------------------------------------------------------------------------
(* vc1: the stencil.                                                       *)

\* Slip: the last neighbour is taken one column to the left.
CrossSlip(f, i, j, k) ==
  Add(Add(Add(f[i * nx + j + k], f[i * nx + j - k]), f[(i + k) * nx + j]),
      f[(i - k) * nx + j - 1])

\* f[i*nx+j+k] + f[i*nx+j-k] + f[(i+k)*nx+j] + f[(i-k)*nx+j]
Cross(f, i, j, k) ==
  Add(Add(Add(f[i * nx + j + k], f[i * nx + j - k]), f[(i + k) * nx + j]),
      f[(i - k) * nx + j])

\* f_xx after the tap loop has run for taps 1..k
RECURSIVE Fxx1(_, _, _, _)
Fxx1(f, i, j, k) ==
  IF k = 0 THEN Mul(Mul(ToNum(2), fd_coeff(0)), f[i * nx + j])
  ELSE Add(Fxx1(f, i, j, k - 1), Mul(fd_coeff(k), Cross(f, i, j, k)))

\* model * f_xx + 2 * f[c] - fp[c]
Leapfrog(fxx, c, fc, fpc) ==
  Sub(Add(Mul(ToNum(ModelAt(c)), fxx), Mul(ToNum(2), fc)), fpc)

\* The value stored into fp[i*nx+j] by vc1.
CellValue1(m, f, fp, i, j) ==
  Leapfrog(Fxx1(m[f], i, j, NumCoeff - 1), i * nx + j, m[f][i * nx + j], m[fp][i * nx + j])

\* Slip: = instead of +=.
InjectedStore(old, c, q) == Mul(ToNum(ModelAt(c)), ToNum(SourcesAt(q)))

\* fp[c] += model[c] * sources[q]
Injected(old, c, q) == Add(old, Mul(ToNum(ModelAt(c)), ToNum(SourcesAt(q))))

\* sy * nx + sx of source s
SourceCell(s) == (sources_y[s + 1] + Halo) * nx + (sources_x[s + 1] + Halo)

\* s * source_len + step
SourceIndex(s, step) == s * source_len + step

\* Slip: step <= num_steps.
LoopTestOff(step) == step <= num_steps

\* step < num_steps
LoopTest(step) == step < num_steps

\* Slip: fp = f after f was overwritten.
SwappedLost(f, fp) == <<fp, fp>>

\* tmp = f; f = fp; fp = tmp
Swapped(f, fp) == <<fp, f>>

----------------------------------------------------------------------------
(* vc6: the unrolled stencil of inner().                                   *)

Fxx6(f, i, j) ==
  Add(Add(Add(Add(Add(Add(Add(Add(
    Mul(Mul(ToNum(2), fd_coeff(0)), f[i * nx + j]),
    Mul(fd_coeff(1),
        Add(Add(Add(f[i * nx + j + 1], f[i * nx + j - 1]),
                f[(i + 1) * nx + j]), f[(i - 1) * nx + j]))),
    Mul(fd_coeff(2),
        Add(Add(Add(f[i * nx + j + 2], f[i * nx + j - 2]),
                f[(i + 2) * nx + j]), f[(i - 2) * nx + j]))),
    Mul(fd_coeff(3),
        Add(Add(Add(f[i * nx + j + 3], f[i * nx + j - 3]),
                f[(i + 3) * nx + j]), f[(i - 3) * nx + j]))),
    Mul(fd_coeff(4),
        Add(Add(Add(f[i * nx + j + 4], f[i * nx + j - 4]),
                f[(i + 4) * nx + j]), f[(i - 4) * nx + j]))),
    Mul(fd_coeff(5),
        Add(Add(Add(f[i * nx + j + 5], f[i * nx + j - 5]),
                f[(i + 5) * nx + j]), f[(i - 5) * nx + j]))),
    Mul(fd_coeff(6),
        Add(Add(Add(f[i * nx + j + 6], f[i * nx + j - 6]),
                f[(i + 6) * nx + j]), f[(i - 6) * nx + j]))),
    Mul(fd_coeff(7),
        Add(Add(Add(f[i * nx + j + 7], f[i * nx + j - 7]),
                f[(i + 7) * nx + j]), f[(i - 7) * nx + j]))),
    Mul(fd_coeff(8),
        Add(Add(Add(f[i * nx + j + 8], f[i * nx + j - 8]),
                f[(i + 8) * nx + j]), f[(i - 8) * nx + j])))

\* Slip: f[i*nx+j] subtracted in place of fp[i*nx+j].
CellValue6Slip(m, f, fp, i, j) ==
  Leapfrog(Fxx6(m[f], i, j), i * nx + j, m[f][i * nx + j], m[f][i * nx + j])

\* The value stored into fp[i*nx+j] by inner().
CellValue6(m, f, fp, i, j) ==
  Leapfrog(Fxx6(m[f], i, j), i * nx + j, m[f][i * nx + j], m[fp][i * nx + j])

\* Slip: 'parallel' without 'for': the same iteration goes to the next thread too.
NextIterationSame(r) == r

\* The iteration handed out after iteration r of the parallel loop.
NextIteration(r) == r + 1

\* Slip: no barrier: the loop is left once every iteration is handed out.
JoinReadyNoWait == nextRow >= RowEnd

\* The join that ends the parallel loop: every iteration handed out and finished.
JoinReady == nextRow >= RowEnd /\ \A w \in Workers : wrow[w] = 0

NoStores == [c \in Cells |-> 0]

----------------------------------------------------------------------------
(* The calls.                                                              *)

\* <<ny, nx, nxi>>; the last one is too narrow for its interior (nxi + 16 > nx).
Grids == {<<17, 17, 1>>, <<18, 19, 2>>, <<17, 16, 1>>}

Kinds ==
  { [field |-> "zero", val |-> 0, model |-> "two", invdx2 |-> 1, amp |-> 3, slack |-> 0],
    [field |-> "const", val |-> -2, model |-> "var", invdx2 |-> 1, amp |-> -2, slack |-> 1],
    [field |-> "mixed", val |-> 0, model |-> "var", invdx2 |-> 2, amp |-> 1, slack |-> 1] }

\* <<sources_x, sources_y>>: none, one, two in one cell, two apart, and two
\* layouts with a source outside the nxi x (ny - 16) interior.
Layouts(g) ==
  { << <<>>, <<>> >>,
    << <<0>>, <<0>> >>,
    << <<0, 0>>, <<0, 0>> >>,
    << <<0, g[3] - 1>>, <<g[1] - 17, 0>> >>,
    << <<g[3]>>, <<0>> >>,
    << <<0>>, <<-1>> >> }

Call(g, k, l, n) ==
  [ny |-> g[1], nx |-> g[2], nxi |-> g[3],
   field |-> k.field, val |-> k.val, model |-> k.model, invdx2 |-> k.invdx2,
   amp |-> k.amp, sources_x |-> l[1], sources_y |-> l[2],
   num_sources |-> Len(l[1]), source_len |-> n + k.slack, num_steps |-> n]

\* The single-source single-step scenario: zero fields, constant model term,
\* one source at (4, 4), one step.
ScenarioGrid == <<21, 21, 5>>

ScenarioCalls ==
  { Call(ScenarioGrid,
         [field |-> "zero", val |-> 0, model |-> "two", invdx2 |-> 1,
          amp |-> 3, slack |-> 0],
         << <<4>>, <<4>> >>, 1) }

Calls ==
  UNION {{Call(g, k, l, n) : k \in Kinds, l \in Layouts(g), n \in 0..MaxSteps} :
           g \in Grids}
    \cup ScenarioCalls

----------------------------------------------------------------------------
(* The state machine.                                                      *)

Init ==
  /\ arg \in Calls
  /\ mem1 = InitialArrays
  /\ f1 = "A"
  /\ fp1 = "B"
  /\ step1 = 0
  /\ i1 = 0
  /\ j1 = 0
  /\ pc1 = "entry"
  /\ mem6 = InitialArrays
  /\ f6 = "A"
  /\ fp6 = "B"
  /\ step6 = 0
  /\ i6 = 0
  /\ pc6 = "entry"
  /\ nextRow = 0
  /\ wrow = [w \in Workers |-> 0]
  /\ wcol = [w \in Workers |-> 0]
  /\ pre = InitialArrays
  /\ hist1 = <<>>
  /\ hist6 = <<>>
  /\ lastw = "none"
  /\ wcount = NoStores
  /\ injlog = <<>>
  /\ sread = {}
  /\ stores = {}

\* vc1: entry of step(): the first test of the step loop.
V1Enter ==
  /\ pc1 = "entry"
  /\ step1' = 0
  /\ i1' = RowStart
  /\ j1' = ColStart
  /\ pc1' = IF LoopTest(0) THEN "cell" ELSE "done"
  /\ pre' = mem1
  /\ UNCHANGED <<arg, stores, mem1, f1, fp1, hist1, lastw, sread, pc6, wcount, injlog>>
  /\ UNCHANGED <<mem6, f6, fp6, step6, i6, nextRow, wrow, wcol, hist6>>

\* vc1: one iteration of the j loop, with the loop tests that follow it.
V1Cell ==
  /\ pc1 = "cell"
  /\ mem1' = [mem1 EXCEPT ![fp1][i1 * nx + j1] = CellValue1(mem1, f1, fp1, i1, j1)]
  /\ stores' = stores \cup {i1 * nx + j1}
  /\ lastw' = fp1
  /\ IF j1 + 1 < ColEnd
     THEN /\ j1' = j1 + 1
          /\ UNCHANGED <<i1, pc1>>
     ELSE IF i1 + 1 < RowEnd
     THEN /\ i1' = i1 + 1
          /\ j1' = ColStart
          /\ UNCHANGED pc1
     ELSE /\ i1' = 0
          /\ j1' = ColEnd
          /\ pc1' = "src"
  /\ UNCHANGED <<arg, f1, fp1, step1, hist1, pre, sread, pc6, wcount, injlog>>
  /\ UNCHANGED <<mem6, f6, fp6, step6, i6, nextRow, wrow, wcol, hist6>>

\* vc1: one iteration of the source loop.
V1Source ==
  /\ pc1 = "src"
  /\ i1 < num_sources
  /\ mem1' = [mem1 EXCEPT ![fp1][SourceCell(i1)] =
                Injected(@, SourceCell(i1), SourceIndex(i1, step1))]
  /\ sread' = sread \cup {SourceIndex(i1, step1)}
  /\ stores' = stores \cup {SourceCell(i1)}
  /\ lastw' = fp1
  /\ i1' = i1 + 1
  /\ UNCHANGED <<arg, f1, fp1, step1, j1, pc1, hist1, pre, pc6, wcount, injlog>>
  /\ UNCHANGED <<mem6, f6, fp6, step6, i6, nextRow, wrow, wcol, hist6>>

\* vc1: the source loop ends; the pointers are swapped; the step loop's test.
V1Swap ==
  /\ pc1 = "src"
  /\ ~(i1 < num_sources)
  /\ f1' = Swapped(f1, fp1)[1]
  /\ fp1' = Swapped(f1, fp1)[2]
  /\ hist1' = Append(hist1, lastw)
  /\ step1' = step1 + 1
  /\ pre' = mem1
  /\ IF LoopTest(step1 + 1)
     THEN /\ pc1' = "cell"
          /\ i1' = RowStart
          /\ j1' = ColStart
     ELSE /\ pc1' = "done"
          /\ UNCHANGED <<i1, j1>>
  /\ UNCHANGED <<arg, stores, mem1, lastw, sread, pc6, wcount, injlog>>
  /\ UNCHANGED <<mem6, f6, fp6, step6, i6, nextRow, wrow, wcol, hist6>>

\* vc6: entry of step(), once vc1 has returned: the first test of the step loop.
V6Enter ==
  /\ pc1 = "done"
  /\ pc6 = "entry"
  /\ step6' = 0
  /\ nextRow' = RowStart
  /\ pc6' = IF LoopTest(0) THEN "par" ELSE "done"
  /\ pre' = mem6
  /\ UNCHANGED <<arg, stores, mem6, f6, fp6, i6, wrow, wcol, hist6, wcount, injlog>>
  /\ UNCHANGED <<vars1, lastw, sread>>

\* vc6: thread w is handed the next iteration i of the parallel loop.
W6Claim(w) ==
  /\ pc6 = "par"
  /\ wrow[w] = 0
  /\ nextRow < RowEnd
  /\ wrow' = [wrow EXCEPT ![w] = nextRow]
  /\ wcol' = [wcol EXCEPT ![w] = ColStart]
  /\ nextRow' = NextIteration(nextRow)
  /\ UNCHANGED <<arg, stores, mem6, f6, fp6, step6, i6, pc6, hist6, wcount, injlog>>
  /\ UNCHANGED <<vars1, pre, lastw, sread>>

\* vc6: thread w runs one iteration of its j loop.
W6Cell(w) ==
  /\ pc6 = "par"
  /\ wrow[w] # 0
  /\ mem6' = [mem6 EXCEPT ![fp6][wrow[w] * nx + wcol[w]] =
                CellValue6(mem6, f6, fp6, wrow[w], wcol[w])]
  /\ wcount' = [wcount EXCEPT ![wrow[w] * nx + wcol[w]] = @ + 1]
  /\ stores' = stores \cup {wrow[w] * nx + wcol[w]}
  /\ lastw' = fp6
  /\ IF wcol[w] + 1 < ColEnd
     THEN /\ wcol' = [wcol EXCEPT ![w] = @ + 1]
          /\ UNCHANGED wrow
     ELSE /\ wrow' = [wrow EXCEPT ![w] = 0]
          /\ wcol' = [wcol EXCEPT ![w] = 0]
  /\ UNCHANGED <<arg, f6, fp6, step6, i6, pc6, nextRow, hist6, injlog>>
  /\ UNCHANGED <<vars1, pre, sread>>

\* vc6: the implicit barrier at the end of the parallel loop.
V6Join ==
  /\ pc6 = "par"
  /\ JoinReady
  /\ pc6' = "src"
  /\ i6' = 0
  /\ UNCHANGED <<arg, stores, mem6, f6, fp6, step6, nextRow, wrow, wcol, hist6, wcount, injlog>>
  /\ UNCHANGED <<vars1, pre, lastw, sread>>

\* vc6: one iteration of inner()'s source loop.
V6Source ==
  /\ pc6 = "src"
  /\ i6 < num_sources
  /\ mem6' = [mem6 EXCEPT ![fp6][SourceCell(i6)] =
                Injected(@, SourceCell(i6), SourceIndex(i6, step6))]
  /\ sread' = sread \cup {SourceIndex(i6, step6)}
  /\ injlog' = Append(injlog, <<step6, i6>>)
  /\ stores' = stores \cup {SourceCell(i6)}
  /\ lastw' = fp6
  /\ i6' = i6 + 1
  /\ UNCHANGED <<arg, f6, fp6, step6, pc6, nextRow, wrow, wcol, hist6, wcount>>
  /\ UNCHANGED <<vars1, pre>>

\* vc6: inner() returns; step() swaps the pointers and tests its loop.
V6Swap ==
  /\ pc6 = "src"
  /\ ~(i6 < num_sources)
  /\ f6' = Swapped(f6, fp6)[1]
  /\ fp6' = Swapped(f6, fp6)[2]
  /\ hist6' = Append(hist6, lastw)
  /\ step6' = step6 + 1
  /\ pre' = mem6
  /\ wcount' = NoStores
  /\ nextRow' = RowStart
  /\ pc6' = IF LoopTest(step6 + 1) THEN "par" ELSE "done"
  /\ UNCHANGED <<arg, stores, mem6, i6, wrow, wcol, injlog>>
  /\ UNCHANGED <<vars1, lastw, sread>>

Next ==
  \/ V1Enter
  \/ V1Cell
  \/ V1Source
  \/ V1Swap
  \/ V6Enter
  \/ \E w \in Workers : W6Claim(w)
  \/ \E w \in Workers : W6Cell(w)
  \/ V6Join
  \/ V6Source
  \/ V6Swap

Spec == Init /\ [][Next]_vars

----------------------------------------------------------------------------
(* The update rule as the specification words it, over padded coordinates. *)

At(buf, r, c) == buf[r * nx + c]

Rows == Halo..(ny - Halo - 1)

Cols == Halo..(nxi + Halo - 1)

\* coeff[k] * (the four symmetric neighbours at offset k), summed for k = n..8
RECURSIVE TapSum(_, _, _, _)
TapSum(buf, r, c, n) ==
  IF n > 8 THEN Zero
  ELSE Add(Mul(fd_coeff(n),
               Add(Add(At(buf, r, c + n), At(buf, r, c - n)),
                   Add(At(buf, r + n, c), At(buf, r - n, c)))),
           TapSum(buf, r, c, n + 1))

StatedFxx(buf, r, c) ==
  Add(Mul(ToNum(2), Mul(fd_coeff(0), At(buf, r, c))), TapSum(buf, r, c, 1))

\* model_term * f_xx + 2 * current - previous, over the arrays cur and prev
StatedValue(cur, prev, r, c) ==
  Sub(Add(Mul(ToNum(ModelAt(r * nx + c)), StatedFxx(cur, r, c)),
          Add(At(cur, r, c), At(cur, r, c))),
      At(prev, r, c))

\* The sum of model_term * amplitude over the sources 0..n-1 located at (r, c).
RECURSIVE StatedInjection(_, _, _, _)
StatedInjection(r, c, n, t) ==
  IF n = 0 THEN Zero
  ELSE Add(StatedInjection(r, c, n - 1, t),
           IF sources_y[n] + 8 = r /\ sources_x[n] + 8 = c
           THEN Mul(ToNum(ModelAt(r * nx + c)), ToNum(SourcesAt((n - 1) * source_len + t)))
           ELSE Zero)

Busy(w) == pc6 = "par" /\ wrow[w] # 0

\* Every source lies in the nxi x (ny - 16) interior.
SourcesInside ==
  \A s \in 1..num_sources :
    /\ 0 <= sources_x[s] /\ sources_x[s] < nxi
    /\ 0 <= sources_y[s] /\ sources_y[s] < ny - 16

\* The preconditions the callers are to meet.
GridFits == ny > 16 /\ nxi + 16 <= nx /\ source_len >= num_steps

----------------------------------------------------------------------------
(* C1: in every step, once the interior update is through and before any  *)
(* injection, each interior cell of the array written holds                *)
(* model_term * f_xx + 2 * current - previous, computed from the two       *)
(* arrays as they were when the step began.                                *)

StencilLaw ==
  /\ (pc1 = "src" /\ i1 = 0) =>
       \A r \in Rows, c \in Cols :
         At(mem1[fp1], r, c) = StatedValue(pre[f1], pre[fp1], r, c)
  /\ (pc6 = "src" /\ i6 = 0) =>
       \A r \in Rows, c \in Cols :
         At(mem6[fp6], r, c) = StatedValue(pre[f6], pre[fp6], r, c)

StencilLawSeen ==
  /\ arg.field = "mixed"
  /\ nxi = 2
  /\ pc6 = "src"
  /\ i6 = 0
  /\ step6 = 1
  /\ hist1 = <<"B", "A">>

----------------------------------------------------------------------------
(* C2: while and after the sources of a step are injected, each interior   *)
(* cell holds its stencil value plus the scaled amplitudes of all sources  *)
(* injected so far at that cell; in the single-source scenario the array   *)
(* passed as 'previous' ends with c * a at (12, 12) and 0 elsewhere in the *)
(* interior.                                                               *)

InjectionAdds ==
  /\ pc1 = "src" =>
       \A r \in Rows, c \in Cols :
         At(mem1[fp1], r, c) =
           Add(StatedValue(pre[f1], pre[fp1], r, c), StatedInjection(r, c, i1, step1))
  /\ pc6 = "src" =>
       \A r \in Rows, c \in Cols :
         At(mem6[fp6], r, c) =
           Add(StatedValue(pre[f6], pre[fp6], r, c), StatedInjection(r, c, i6, step6))
  /\ (arg \in ScenarioCalls /\ pc1 = "done") =>
       \A r \in Rows, c \in Cols :
         At(mem1["B"], r, c) =
           IF r = 12 /\ c = 12 THEN ToNum(ModelAt(12 * nx + 12) * arg.amp) ELSE Zero
  /\ (arg \in ScenarioCalls /\ pc6 = "done") =>
       \A r \in Rows, c \in Cols :
         At(mem6["B"], r, c) =
           IF r = 12 /\ c = 12 THEN ToNum(ModelAt(12 * nx + 12) * arg.amp) ELSE Zero

InjectionAddsSeen ==
  /\ arg.field = "mixed"
  /\ sources_x = <<0, 0>>
  /\ sources_y = <<0, 0>>
  /\ pc6 = "src"
  /\ i6 = 2
  /\ step6 = 1

ScenarioSeen ==
  /\ arg \in ScenarioCalls
  /\ pc6 = "done"
  /\ At(mem6["B"], 12, 12) = ToNum(6)

----------------------------------------------------------------------------
(* C3: no cell outside [8, ny-8) x [8, nxi+8) of either array is ever      *)
(* stored to, and at return every such cell holds the caller's value.      *)

HaloKept(m) ==
  \A a \in Arrays, x \in Cells \ Interior : m[a][x] = ToNum(FieldAt(a, x))

HaloFrame ==
  /\ stores \subseteq Interior
  /\ (pc1 = "done" /\ pc6 = "entry") => HaloKept(mem1)
  /\ pc6 = "done" => HaloKept(mem6)

\* As claimed: for every call that meets the listed preconditions.
HaloNeverWritten == GridFits => HaloFrame

\* As the code has it: provided also that every source lies in the interior.
HaloNeverWrittenBySourcesInside == (GridFits /\ SourcesInside) => HaloFrame

HaloSeen ==
  /\ GridFits
  /\ num_sources = 2
  /\ SourcesInside
  /\ arg.field = "mixed"
  /\ nxi = 2
  /\ step6 = 2
  /\ pc6 = "done"

----------------------------------------------------------------------------
(* C4: the iterations write the caller's arrays alternately, starting with *)
(* the one passed as 'previous'; after each iteration f designates the     *)
(* array just written and fp the other one, which the iteration left as it *)
(* was; so after n steps the latest level is in 'previous' for odd n and   *)
(* in 'current' for even n > 0.                                            *)

Alternates(h) == \A t \in 1..Len(h) : h[t] = IF t % 2 = 1 THEN "B" ELSE "A"

RolesAlternate ==
  /\ Alternates(hist1)
  /\ Alternates(hist6)
  /\ pc1 # "entry" => Len(hist1) = step1
  /\ pc6 # "entry" => Len(hist6) = step6
  /\ Len(hist1) > 0 => (f1 = hist1[Len(hist1)] /\ fp1 # f1)
  /\ Len(hist6) > 0 => (f6 = hist6[Len(hist6)] /\ fp6 # f6)
  /\ pc1 \in {"cell", "src"} => mem1[f1] = pre[f1]
  /\ pc6 \in {"par", "src"} => mem6[f6] = pre[f6]
  /\ pc1 = "done" =>
       /\ step1 = num_steps
       /\ (num_steps % 2 = 1) => (f1 = "B" /\ fp1 = "A")
       /\ (num_steps % 2 = 0) => (f1 = "A" /\ fp1 = "B")
  /\ pc6 = "done" =>
       /\ step6 = num_steps
       /\ (num_steps % 2 = 1) => (f6 = "B" /\ fp6 = "A")
       /\ (num_steps % 2 = 0) => (f6 = "A" /\ fp6 = "B")

RolesSeen ==
  /\ pc6 = "done"
  /\ num_steps = 2
  /\ hist6 = <<"B", "A">>
  /\ f6 = "A"
  /\ arg.field = "mixed"

----------------------------------------------------------------------------
(* C5: a call with num_steps = 0 writes no cell, reads no source sample    *)
(* and leaves f and fp as they were passed.                                *)

ZeroStepsNoOp ==
  num_steps = 0 =>
    /\ mem1 = InitialArrays
    /\ mem6 = InitialArrays
    /\ f1 = "A" /\ fp1 = "B"
    /\ f6 = "A" /\ fp6 = "B"
    /\ lastw = "none"
    /\ sread = {}

ZeroStepsSeen ==
  /\ num_steps = 0
  /\ source_len = 0
  /\ num_sources = 2
  /\ pc1 = "done"
  /\ pc6 = "done"

----------------------------------------------------------------------------
(* C6: whatever thread runs which row and however the threads' cell        *)
(* updates interleave, vc6 returns with both arrays and both pointers as   *)
(* vc1 returns them for the same call.                                     *)

VariantsAgree == pc6 = "done" => (mem6 = mem1 /\ f6 = f1 /\ fp6 = fp1)

VariantsAgreeSeen ==
  /\ pc6 = "done"
  /\ num_steps = 2
  /\ arg.field = "mixed"
  /\ num_sources = 2
  /\ nxi = 2
  /\ mem6 # InitialArrays

----------------------------------------------------------------------------
(* C7: in vc6 the injections happen in the order (step 0: source 0, 1, ..),*)
(* (step 1: source 0, 1, ..), ..; an injection of a step happens only when *)
(* every interior cell has been stored in that step and no thread is still *)
(* in the parallel loop; a store or a swap of the next step happens only   *)
(* when every source of the step has been injected.                        *)

StepOrder(t, n) ==
  [q \in 1..(t * num_sources + n) |-> <<(q - 1) \div num_sources, (q - 1) % num_sources>>]

InjectedNow == Len(injlog) - step6 * num_sources

PhasesOrdered ==
  /\ 0 <= InjectedNow /\ InjectedNow <= num_sources
  /\ injlog = StepOrder(step6, InjectedNow)
  /\ (pc6 = "src" \/ InjectedNow > 0) =>
       /\ \A w \in Workers : wrow[w] = 0
       /\ \A x \in Interior : wcount[x] = 1
  /\ pc6 = "src" => InjectedNow = i6
  /\ pc6 = "done" => Len(injlog) = num_steps * num_sources

PhasesSeen ==
  /\ pc6 = "src"
  /\ step6 = 1
  /\ injlog = <<<<0, 0>>, <<0, 1>>, <<1, 0>>>>
  /\ ny = 18

----------------------------------------------------------------------------
(* C8: in the parallel loop no cell is stored twice, only interior cells   *)
(* are stored, a thread's next store goes to a cell not yet stored, the    *)
(* cells two threads have still to store or to read from fp are disjoint,  *)
(* the only fp cell a thread reads is the one it stores next, and the      *)
(* array read through the stencil is as it was when the step began.        *)

\* The fp cell read by the update of (i, j).
FpRead(i, j) == {i * nx + j}

\* The fp cell stored by the update of (i, j).
FpStored(i, j) == {i * nx + j}

\* What thread w has still to store (and to read from fp) in its row.
Pending(w) == UNION {FpStored(wrow[w], j) \cup FpRead(wrow[w], j) : j \in wcol[w]..(ColEnd - 1)}

RaceFree ==
  /\ pc6 = "par" =>
       /\ f6 # fp6
       /\ mem6[f6] = pre[f6]
       /\ \A x \in Cells : wcount[x] <= 1 /\ (wcount[x] = 1 => x \in Interior)
       /\ \A w \in Workers :
            Busy(w) =>
              /\ FpRead(wrow[w], wcol[w]) = FpStored(wrow[w], wcol[w])
              /\ \A x \in Pending(w) : wcount[x] = 0
       /\ \A v \in Workers, w \in Workers :
            (v # w /\ Busy(v) /\ Busy(w)) => Pending(v) \cap Pending(w) = {}
  /\ pc6 = "src" => \A x \in Interior : wcount[x] = 1

RaceFreeSeen ==
  /\ pc6 = "par"
  /\ \A w \in Workers : Busy(w)
  /\ wcol[1] = 9
  /\ wcol[2] = 9
  /\ step6 = 1

----------------------------------------------------------------------------
(* C9: the central numerator is negative, the others alternate in sign     *)
(* starting positive, 2 n[0] v + 4 v (n[1] + .. + n[8]) = 0, both variants *)
(* compute f_xx = 0 for the cell they update next whenever the array read  *)
(* is constant over that cell's cross of reach 8, and a constant field     *)
(* with previous = current and no sources stays as it is.                  *)

\* Largest |v| of the constant fields tried.
MaxVal == 3

RECURSIVE NumerSum(_)
NumerSum(k) == IF k = 0 THEN 0 ELSE Numer[k + 1] + NumerSum(k - 1)

ConstantCross(buf, r, c) ==
  \A k \in 1..8 :
    /\ At(buf, r, c + k) = At(buf, r, c)
    /\ At(buf, r, c - k) = At(buf, r, c)
    /\ At(buf, r + k, c) = At(buf, r, c)
    /\ At(buf, r - k, c) = At(buf, r, c)

----------------------------------------------------------------------------
(* C10: for a call that meets the preconditions and has every source in    *)
(* the interior, every index the next update reads lies in the array and   *)
(* in the row and column it is meant for, every injection goes to an       *)
(* interior cell, and every index into sources[] is below                  *)
(* num_sources * source_len.                                               *)

\* <<flat index, row, column>> of every f, fp and model cell the update of (i, j) touches.
Touched(i, j) ==
  UNION {{<<i * nx + j + k, i, j + k>>, <<i * nx + j - k, i, j - k>>,
          <<(i + k) * nx + j, i + k, j>>, <<(i - k) * nx + j, i - k, j>>} : k \in 0..8}

Inside(t) ==
  /\ t[1] \in Cells
  /\ 0 <= t[2] /\ t[2] < ny
  /\ 0 <= t[3] /\ t[3] < nx

InBounds ==
  (GridFits /\ SourcesInside) =>
    /\ pc1 = "cell" => \A t \in Touched(i1, j1) : Inside(t)
    /\ \A w \in Workers : Busy(w) => \A t \in Touched(wrow[w], wcol[w]) : Inside(t)
    /\ (pc1 = "src" /\ i1 < num_sources) =>
         /\ SourceCell(i1) \in Interior
         /\ SourceIndex(i1, step1) \in 0..(num_sources * source_len - 1)
    /\ (pc6 = "src" /\ i6 < num_sources) =>
         /\ SourceCell(i6) \in Interior
         /\ SourceIndex(i6, step6) \in 0..(num_sources * source_len - 1)
    /\ \A q \in sread : q \in 0..(num_sources * source_len - 1)

InBoundsSeen ==
  /\ GridFits
  /\ SourcesInside
  /\ nx = nxi + 16
  /\ pc6 = "src"
  /\ i6 = 1
  /\ num_sources = 2
  /\ step6 = 1
  /\ 1 \in sread

====
